---- MODULE Spec2Model ----
(***************************************************************************)
(* vite-plugin-legacy (src/src/plugin.ts): the build hook that synthesizes *)
(* a legacy bundle, the html/assets accessors it installs on the build     *)
(* result, and the loader script it generates.                             *)
(*                                                                         *)
(* Strings that the code takes apart are modelled by their parts:          *)
(*   - a path or URL is the sequence of its segments, the string split at  *)
(*     every "/"  ("/assets/main.js" is << "", "assets", "main.js" >>);    *)
(*   - a segment is the sequence of its parts, the segment split at every  *)
(*     "."  ("main.js" is << "main", "js" >>, "" is << "" >>,              *)
(*     ".." is << "", "", "" >>).                                          *)
(* Splitting is injective, so string equality is equality of the parts.    *)
(* An HTML document is the sequence of its tokens: a module-script tag of  *)
(* exactly the shape the html setter's pattern matches, any other tag, or  *)
(* text.                                                                   *)
(***************************************************************************)
EXTENDS Integers, Sequences, FiniteSets, TLC

VARIABLES
    write,          \* viteConfig.write
    esbuildTarget,  \* viteConfig.esbuildTarget
    inputPlugins,   \* viteConfig.rollupInputOptions.plugins: << >> is undefined, << list >> an array
    configured,     \* configureBuild has run
    phase,          \* "config" | "options" | "generate" | "finalize" | "aborted"
    chain,          \* the plugins array of the bundler's input options
    snapshot,       \* the plugins whose options hooks the bundler runs, in order
    hookIdx,        \* next options hook to run
    genIdx,         \* next generateBundle hook to run
    genLog,         \* names of the plugins whose generateBundle hook has run, in order
    bundle,         \* the outer build's output manifest, in manifest order
    mainChunk,      \* generateBundle's mainChunk: << >> is undefined
    legacyAssets,   \* generateBundle's legacyAssets: << >> before it is built
    error,          \* the error that aborted the build, "none" otherwise
    overrides,      \* the html/assets accessors are installed on builds[0]
    html,           \* closure variable html: << >> is undefined, << doc >> a value
    assets,         \* closure variable assets: << >> is undefined, << list >> a value
    plainHtml,      \* builds[0].html while it is a plain property
    plainAssets,    \* builds[0].assets while it is a plain property
    htmlIn,         \* the content last assigned to builds[0].html
    assetsIn,       \* the list last assigned to builds[0].assets
    awaited,        \* what the transform and the nested bundle gave generateBundle: << >> before it ran
    loader,         \* the loader script a page runs
    env,            \* the browser running it
    pc,             \* the statement of the loader to run next
    script,         \* the element held by the loader's `script` variable
    created,        \* document.createElement calls
    srcSets,        \* the values assigned to script.src, in order
    head,           \* the children appended to document.head, in order
    threw           \* the statement of the try block that threw, "none" otherwise

buildVars == << write, esbuildTarget, inputPlugins, configured, phase, chain, snapshot,
                hookIdx, genIdx, genLog, bundle, mainChunk, legacyAssets, error, overrides,
                html, assets, plainHtml, plainAssets, htmlIn, assetsIn, awaited >>
loaderVars == << loader, env, pc, script, created, srcSets, head, threw >>
vars == << buildVars, loaderVars >>

----------------------------------------------------------------------------
(* Bounds of the model. *)
MaxBundle == 2      \* entries of the output manifest
MaxHtml == 2        \* tokens of an HTML document
MaxOthers == 2      \* other plugins registered in rollupInputOptions.plugins
NarrowOthers == 1   \* the same, where the plugin chain is not what is explored

----------------------------------------------------------------------------
(* Segments and paths. *)
Empty == << "" >>
Dot == << "", "" >>
DotDot == << "", "", "" >>
Seg(s) == << s >>

Last(s) == s[Len(s)]
Front(s) == SubSeq(s, 1, Len(s) - 1)

\* The string is "/..." : path.posix's test of its first character.
IsAbsolute(p) == Len(p) >= 2 /\ p[1] = Empty

\* The empty string.
IsEmptyString(p) == p = << Empty >>

\* path.basename: trailing separators dropped, then what follows the last separator.
RECURSIVE basename(_)
basename(p) ==
    IF Len(p) = 0 THEN Empty
    ELSE IF Last(p) = Empty /\ Len(p) > 1 THEN basename(Front(p))
    ELSE Last(p)

\* path's normalizeString for an absolute path: empty and "." segments dropped,
\* ".." removes the segment before it and is dropped at the root.
RECURSIVE normalizeString(_, _)
normalizeString(segs, acc) ==
    IF Len(segs) = 0 THEN acc
    ELSE LET s == Head(segs) IN
         IF s = Empty \/ s = Dot THEN normalizeString(Tail(segs), acc)
         ELSE IF s = DotDot
              THEN normalizeString(Tail(segs), IF Len(acc) = 0 THEN acc ELSE Front(acc))
              ELSE normalizeString(Tail(segs), Append(acc, s))

\* The loop of path.resolve: the arguments are taken from the right, each put
\* before what is resolved so far, until an absolute one is met.
RECURSIVE resolveArgs(_, _)
resolveArgs(args, acc) ==
    IF Len(args) = 0 THEN << FALSE, acc >>
    ELSE LET p == Last(args) IN
         IF IsEmptyString(p) THEN resolveArgs(Front(args), acc)
         ELSE IF IsAbsolute(p) THEN << TRUE, p \o acc >>
         ELSE resolveArgs(Front(args), p \o acc)

\* process.cwd()
Cwd == << Empty, Seg("work") >>

\* path.resolve / path.posix.resolve: always an absolute, normalized path.
resolve(args) ==
    LET r == resolveArgs(args, << >>)
        full == IF r[1] THEN r[2] ELSE Cwd \o r[2]
        norm == normalizeString(full, << >>)
    IN  IF Len(norm) = 0 THEN << Empty, Empty >> ELSE << Empty >> \o norm

----------------------------------------------------------------------------
(* File names, the output manifest and HTML documents. *)
MainJs == << "main", "a1b2", "js" >>                \* main.a1b2.js
MainLegacyJs == << "main", "a1b2", "legacy", "js" >> \* main.a1b2.legacy.js
AppMjs == << "app", "mjs" >>                         \* app.mjs

FileNames == { << MainJs >>, << MainLegacyJs >>, << AppMjs >> }

\* One file of the outer build's output (OutputChunk | OutputAsset).
Item(type, isEntry, fileName) ==
    [type |-> type, isEntry |-> isEntry, fileName |-> fileName, origin |-> "outer"]

Items ==
    { Item("chunk", TRUE, f) : f \in FileNames }
      \cup { Item("chunk", FALSE, f) : f \in FileNames }
      \cup { Item("asset", FALSE, f) : f \in FileNames }

\* The manifest is an object keyed by file name: no two entries share one.
DistinctNames(b) == \A i, j \in 1..Len(b) : i # j => b[i].fileName # b[j].fileName

Bundles == { b \in UNION { [1..k -> Items] : k \in 0..MaxBundle } : DistinctNames(b) }

NarrowBundles ==
    { << >>,
      << Item("chunk", TRUE, << MainJs >>) >>,
      << Item("asset", FALSE, << AppMjs >>), Item("chunk", TRUE, << MainJs >>) >> }

NoPath == << >>

ModuleTag(src) ==   \* <script type="module" src="SRC"></script>
    [kind |-> "moduleTag", src |-> src, legacy |-> NoPath, moduleTest |-> "", syntaxTest |-> ""]
OtherTag(src) ==    \* any other tag, such as <script type="module" async src="SRC"></script>
    [kind |-> "otherTag", src |-> src, legacy |-> NoPath, moduleTest |-> "", syntaxTest |-> ""]
Text ==             \* text between tags
    [kind |-> "text", src |-> NoPath, legacy |-> NoPath, moduleTest |-> "", syntaxTest |-> ""]

AbsPrefix == << Empty, Seg("assets") >>                       \* /assets/
RelPrefix == << Seg("assets") >>                              \* assets/
UrlPrefix == << Seg("https:"), Empty, << "cdn", "io" >> >>    \* https://cdn.io/
Prefixes == { AbsPrefix, RelPrefix, UrlPrefix }

Srcs == { p \o << f >> : p \in Prefixes, f \in { MainJs, AppMjs } }

Tokens == { ModuleTag(s) : s \in Srcs } \cup { OtherTag(AbsPrefix \o << MainJs >>), Text }

HtmlDocs == UNION { [1..k -> Tokens] : k \in 0..MaxHtml }

NarrowDocs ==
    { << ModuleTag(AbsPrefix \o << MainJs >>), ModuleTag(AbsPrefix \o << AppMjs >>) >> }

\* The contiguous parts of a list: the asset lists the outer build reports.
Slices(b) == { SubSeq(b, m, n) : m \in 1..(Len(b) + 1), n \in 0..Len(b) }

----------------------------------------------------------------------------
(* The capability tests and the loader script. *)
TargetInputs == { "es2015", "es2018", "ES2018", "es2019", "es2020", "ES2020", "esnext" }
NarrowTargets == { "ES2019", "esnext" }

\* String.prototype.toLowerCase on the target names used here.
toLowerCase(t) ==
    CASE t = "ES2018" -> "es2018"
      [] t = "ES2019" -> "es2019"
      [] t = "ES2020" -> "es2020"
      [] OTHER -> t

syntaxTests ==
    [es2018 |-> "void ({...{}}, /0/s, async function*(){})",
     es2019 |-> "try{} catch{}",
     es2020 |-> "0?.$"]

\* createScriptFactory(target)(modernBundleId, legacyBundleId): the script text, by
\* its interpolated parts. A target without a test interpolates the text "undefined".
createScriptFactory(target, modernBundleId, legacyBundleId) ==
    LET syntaxTest == IF target \in DOMAIN syntaxTests THEN syntaxTests[target] ELSE "undefined"
        moduleTest == "script.noModule.$"
    IN  [kind |-> "loader", src |-> modernBundleId, legacy |-> legacyBundleId,
         moduleTest |-> moduleTest, syntaxTest |-> syntaxTest]

\* configureBuild's getLoader.
getLoader(modernBundleId, legacyBundleId) ==
    createScriptFactory(toLowerCase(esbuildTarget), modernBundleId, legacyBundleId)

----------------------------------------------------------------------------
(* createLegacyChunk. *)
Root == << Empty, Seg("proj") >>     \* viteConfig.root
OutDir == << Seg("dist") >>          \* viteConfig.outDir
AssetsDir == << Seg("assets") >>     \* viteConfig.assetsDir

\* fileName.replace(/\.js$/, '.legacy.js')
replaceJs(fileName) ==
    LET s == Last(fileName) IN
    IF Len(s) >= 2 /\ Last(s) = "js"
    THEN Front(fileName) \o << Front(s) \o << "legacy", "js" >> >>
    ELSE fileName

legacyPath(chunk) == resolve(<< Root, OutDir, AssetsDir, replaceJs(chunk.fileName) >>)

\* bundle.generate({ file: legacyPath }): the one chunk generated is named by the
\* base name of `file`.
generate(file) ==
    [type |-> "chunk", isEntry |-> TRUE, fileName |-> << basename(file) >>, origin |-> "nested"]

TransformResults == { "result", "null", "rejected" }   \* of babel.transformAsync
RebundleResults == { "output", "rejected" }            \* of rollup() and bundle.generate()

\* A bug: a transform without a result, or a failed nested bundle, is passed over
\* and the modern chunk is handed back as the legacy one.
createLegacyChunkSkips(chunk, transformed, rebundled) ==
    IF Len(chunk) = 0
    THEN [error |-> "TypeError: mainChunk is undefined", output |-> << >>]
    ELSE IF transformed = "rejected"
    THEN [error |-> "babel: transform rejected", output |-> << >>]
    ELSE IF transformed = "null" \/ rebundled = "rejected"
    THEN [error |-> "none", output |-> chunk]
    ELSE [error |-> "none", output |-> << generate(legacyPath(chunk[1])) >>]

\* The result of awaiting createLegacyChunk(mainChunk, ...): the chunk it returns,
\* or the error it throws.
createLegacyChunk(chunk, transformed, rebundled) ==
    IF Len(chunk) = 0
    THEN [error |-> "TypeError: mainChunk is undefined", output |-> << >>]
    ELSE IF transformed = "rejected"
    THEN [error |-> "babel: transform rejected", output |-> << >>]
    ELSE IF transformed = "null"
    THEN [error |-> "[vite-plugin-legacy] Failed to transform modern bundle", output |-> << >>]
    ELSE IF rebundled = "rejected"
    THEN [error |-> "rollup: nested bundle rejected", output |-> << >>]
    ELSE [error |-> "none", output |-> << generate(legacyPath(chunk[1])) >>]

\* A bug: the last chunk flagged as entry is taken.
RECURSIVE findLast(_)
findLast(b) ==
    IF Len(b) = 0 THEN << >>
    ELSE IF Last(b).type = "chunk" /\ Last(b).isEntry THEN << Last(b) >>
    ELSE findLast(Front(b))

\* Object.values(bundle).find(asset => asset.type == 'chunk' && asset.isEntry)
RECURSIVE find(_)
find(b) ==
    IF Len(b) = 0 THEN << >>
    ELSE IF Head(b).type = "chunk" /\ Head(b).isEntry THEN << Head(b) >>
    ELSE find(Tail(b))

----------------------------------------------------------------------------
(* The accessors generateBundle installs on builds[0]. *)

\* A bug: every module-script tag is replaced, whatever file it names.
replacementAlways(match) ==
    getLoader(match.src, resolve(<< match.src, << DotDot >>, legacyAssets[1].fileName >>))

\* The replacement function of content.replace(/<script type="module" src="([^"]+)"><\/script>/g, ...)
replacement(match) ==
    LET moduleId == match.src IN
    IF << basename(moduleId) >> = mainChunk[1].fileName
    THEN getLoader(moduleId, resolve(<< moduleId, << DotDot >>, legacyAssets[1].fileName >>))
    ELSE match

\* set html(content): every match of the pattern is replaced, the rest is kept.
htmlSetter(content) ==
    [i \in 1..Len(content) |->
        IF content[i].kind = "moduleTag" THEN replacement(content[i]) ELSE content[i]]

\* A bug: the legacy artifact replaces the list instead of being added to it.
assetsSetterReplaces(modernAssets) == legacyAssets

\* set assets(modernAssets)
assetsSetter(modernAssets) == modernAssets \o legacyAssets

\* What a read of builds[0].html / builds[0].assets gives: << >> is undefined.
ReadHtml == IF overrides THEN html ELSE plainHtml
ReadAssets == IF overrides THEN assets ELSE plainAssets

----------------------------------------------------------------------------
(* Plugins. *)
buildPlugin == [name |-> "vite-legacy:build", pushes |-> FALSE]
setupPlugin == [name |-> "vite-legacy:setup", pushes |-> TRUE]

\* Other plugins: one whose options hook leaves the plugin list alone, and one
\* whose options hook appends a plugin to it, as setupPlugin's does.
StaticPlugin == [name |-> "other:static", pushes |-> FALSE]
DynamicPlugin == [name |-> "other:dynamic", pushes |-> TRUE]
LatePlugin == [name |-> "other:late", pushes |-> FALSE]
Others == { StaticPlugin, DynamicPlugin }

\* The outer build's own plugins, before and after rollupInputOptions.plugins.
VitePre == << [name |-> "vite:base", pushes |-> FALSE] >>
VitePost == << [name |-> "vite:html", pushes |-> FALSE] >>

\* rollupInputOptions.plugins as a list: undefined reads as no plugins.
Registered == IF Len(inputPlugins) = 0 THEN << >> ELSE inputPlugins[1]

Count(list, S) == Cardinality({ i \in 1..Len(list) : list[i] \in S })

\* setupPlugin.options({ plugins })
setupOptions(plugins) == Append(plugins, buildPlugin)

\* The options hook of a plugin of the chain, applied to the plugins array.
optionsHook(plugin, plugins) ==
    IF plugin = setupPlugin THEN setupOptions(plugins)
    ELSE IF plugin.pushes THEN Append(plugins, LatePlugin)
    ELSE plugins

----------------------------------------------------------------------------
(* The build. *)
NoLoader == Text
IdleEnv == [noModule |-> "false", es |-> 2020]
IdleScript == [type |-> "", src |-> NoPath]

InitOver(T) ==
    /\ write \in BOOLEAN
    /\ esbuildTarget \in T
    /\ inputPlugins = << >>
    /\ configured = FALSE
    /\ phase = "config"
    /\ chain = << >>
    /\ snapshot = << >>
    /\ hookIdx = 1
    /\ genIdx = 1
    /\ genLog = << >>
    /\ bundle = << >>
    /\ mainChunk = << >>
    /\ legacyAssets = << >>
    /\ error = "none"
    /\ overrides = FALSE
    /\ html = << >>
    /\ assets = << >>
    /\ plainHtml = << >>
    /\ plainAssets = << >>
    /\ htmlIn = << >>
    /\ assetsIn = << >>
    /\ awaited = << >>
    /\ loader = NoLoader
    /\ env = IdleEnv
    /\ pc = "idle"
    /\ script = IdleScript
    /\ created = 0
    /\ srcSets = << >>
    /\ head = << >>
    /\ threw = "none"

\* Another participant of the build registers a plugin of its own, before or
\* after configureBuild runs: (rollupInputOptions.plugins ??= []).push(p)
ConfigPush(n, p) ==
    /\ phase = "config"
    /\ Count(Registered, Others) < n
    /\ inputPlugins' = << Append(Registered, p) >>
    /\ UNCHANGED << write, esbuildTarget, configured, phase, chain, snapshot, hookIdx, genIdx,
                    genLog, bundle, mainChunk, legacyAssets, error, overrides, html, assets,
                    plainHtml, plainAssets, htmlIn, assetsIn, awaited >>
    /\ UNCHANGED loaderVars

\* A bug: the early return for a build that does not write is missing.
configureBuildAlways ==
    /\ phase = "config"
    /\ ~configured
    /\ configured' = TRUE
    /\ inputPlugins' = << Append(Registered, setupPlugin) >>
    /\ UNCHANGED << write, esbuildTarget, phase, chain, snapshot, hookIdx, genIdx,
                    genLog, bundle, mainChunk, legacyAssets, error, overrides, html, assets,
                    plainHtml, plainAssets, htmlIn, assetsIn, awaited >>
    /\ UNCHANGED loaderVars

\* A bug: the build plugin is registered directly, not from an options hook.
configureBuildDirect ==
    /\ phase = "config"
    /\ ~configured
    /\ configured' = TRUE
    /\ IF ~write THEN UNCHANGED inputPlugins
       ELSE inputPlugins' = << Append(Registered, buildPlugin) >>
    /\ UNCHANGED << write, esbuildTarget, phase, chain, snapshot, hookIdx, genIdx,
                    genLog, bundle, mainChunk, legacyAssets, error, overrides, html, assets,
                    plainHtml, plainAssets, htmlIn, assetsIn, awaited >>
    /\ UNCHANGED loaderVars

configureBuild ==
    /\ phase = "config"
    /\ ~configured
    /\ configured' = TRUE
    /\ IF ~write THEN UNCHANGED inputPlugins
       ELSE inputPlugins' = << Append(Registered, setupPlugin) >>
    /\ UNCHANGED << write, esbuildTarget, phase, chain, snapshot, hookIdx, genIdx,
                    genLog, bundle, mainChunk, legacyAssets, error, overrides, html, assets,
                    plainHtml, plainAssets, htmlIn, assetsIn, awaited >>
    /\ UNCHANGED loaderVars

\* The outer build calls the bundler with its own plugins around the registered
\* ones; the bundler runs the options hooks of the plugins it was given.
StartRollup ==
    /\ phase = "config"
    /\ configured
    /\ chain' = VitePre \o Registered \o VitePost
    /\ snapshot' = chain'
    /\ hookIdx' = 1
    /\ phase' = "options"
    /\ UNCHANGED << write, esbuildTarget, inputPlugins, configured, genIdx,
                    genLog, bundle, mainChunk, legacyAssets, error, overrides, html, assets,
                    plainHtml, plainAssets, htmlIn, assetsIn, awaited >>
    /\ UNCHANGED loaderVars

RunOptionsHook ==
    /\ phase = "options"
    /\ hookIdx <= Len(snapshot)
    /\ chain' = optionsHook(snapshot[hookIdx], chain)
    /\ hookIdx' = hookIdx + 1
    /\ UNCHANGED << write, esbuildTarget, inputPlugins, configured, phase, snapshot, genIdx,
                    genLog, bundle, mainChunk, legacyAssets, error, overrides, html, assets,
                    plainHtml, plainAssets, htmlIn, assetsIn, awaited >>
    /\ UNCHANGED loaderVars

\* The outer build has produced its output manifest; the generateBundle hooks run.
StartGenerate(B) ==
    /\ phase = "options"
    /\ hookIdx > Len(snapshot)
    /\ \E b \in B : bundle' = b
    /\ genIdx' = 1
    /\ phase' = "generate"
    /\ UNCHANGED << write, esbuildTarget, inputPlugins, configured, chain, snapshot, hookIdx,
                    genLog, mainChunk, legacyAssets, error, overrides, html, assets,
                    plainHtml, plainAssets, htmlIn, assetsIn, awaited >>
    /\ UNCHANGED loaderVars

\* The generateBundle hook of a plugin other than buildPlugin.
OtherGenerateBundle ==
    /\ phase = "generate"
    /\ genIdx <= Len(chain)
    /\ chain[genIdx] # buildPlugin
    /\ genLog' = Append(genLog, chain[genIdx].name)
    /\ genIdx' = genIdx + 1
    /\ UNCHANGED << write, esbuildTarget, inputPlugins, configured, phase, chain, snapshot,
                    hookIdx, bundle, mainChunk, legacyAssets, error, overrides, html, assets,
                    plainHtml, plainAssets, htmlIn, assetsIn, awaited >>
    /\ UNCHANGED loaderVars

\* buildPlugin.generateBundle(_, bundle), with the results of the transform and of
\* the nested bundle it awaits.
generateBundle(transformed, rebundled) ==
    /\ phase = "generate"
    /\ genIdx <= Len(chain)
    /\ chain[genIdx] = buildPlugin
    /\ mainChunk' = find(bundle)
    /\ LET made == createLegacyChunk(mainChunk', transformed, rebundled) IN
       IF made.error # "none"
       THEN /\ error' = made.error
            /\ phase' = "aborted"
            /\ UNCHANGED << legacyAssets, overrides, html, assets, genIdx, genLog >>
       ELSE /\ legacyAssets' = made.output
            /\ overrides' = TRUE
            /\ html' = << >>
            /\ assets' = << >>
            /\ genLog' = Append(genLog, buildPlugin.name)
            /\ genIdx' = genIdx + 1
            /\ UNCHANGED << error, phase >>
    /\ awaited' = << [transformed |-> transformed, rebundled |-> rebundled] >>
    /\ UNCHANGED << write, esbuildTarget, inputPlugins, configured, chain, snapshot,
                    hookIdx, bundle, plainHtml, plainAssets, htmlIn, assetsIn >>
    /\ UNCHANGED loaderVars

FinishGenerate ==
    /\ phase = "generate"
    /\ genIdx > Len(chain)
    /\ phase' = "finalize"
    /\ UNCHANGED << write, esbuildTarget, inputPlugins, configured, chain, snapshot, hookIdx,
                    genIdx, genLog, bundle, mainChunk, legacyAssets, error, overrides, html,
                    assets, plainHtml, plainAssets, htmlIn, assetsIn, awaited >>
    /\ UNCHANGED loaderVars

\* The outer build renders the page once and assigns builds[0].html = content.
AssignHtml(D) ==
    /\ phase = "finalize"
    /\ Len(htmlIn) = 0
    /\ \E content \in D :
        /\ htmlIn' = << content >>
        /\ IF overrides
           THEN html' = << htmlSetter(content) >> /\ UNCHANGED plainHtml
           ELSE plainHtml' = << content >> /\ UNCHANGED html
    /\ UNCHANGED << write, esbuildTarget, inputPlugins, configured, phase, chain, snapshot,
                    hookIdx, genIdx, genLog, bundle, mainChunk, legacyAssets, error, overrides,
                    assets, plainAssets, assetsIn, awaited >>
    /\ UNCHANGED loaderVars

\* The outer build assigns builds[0].assets = modernAssets.
AssignAssets ==
    /\ phase = "finalize"
    /\ \E modernAssets \in Slices(bundle) :
        /\ assetsIn' = << modernAssets >>
        /\ IF overrides
           THEN assets' = << assetsSetter(modernAssets) >> /\ UNCHANGED plainAssets
           ELSE plainAssets' = << modernAssets >> /\ UNCHANGED assets
    /\ UNCHANGED << write, esbuildTarget, inputPlugins, configured, phase, chain, snapshot,
                    hookIdx, genIdx, genLog, bundle, mainChunk, legacyAssets, error, overrides,
                    html, plainHtml, htmlIn, awaited >>
    /\ UNCHANGED loaderVars

NextOver(B, D, n) ==
    \/ \E p \in Others : ConfigPush(n, p)
    \/ configureBuild
    \/ StartRollup
    \/ RunOptionsHook
    \/ StartGenerate(B)
    \/ OtherGenerateBundle
    \/ \E t \in TransformResults, r \in RebundleResults : generateBundle(t, r)
    \/ FinishGenerate
    \/ AssignHtml(D)
    \/ AssignAssets

\* The output manifest explored widely.
Init == InitOver(NarrowTargets)
Next == NextOver(Bundles, NarrowDocs, NarrowOthers)
Spec == Init /\ [][Next]_vars

\* The HTML documents explored widely.
HtmlNext == NextOver(NarrowBundles, HtmlDocs, NarrowOthers)
HtmlSpec == Init /\ [][HtmlNext]_vars

\* The plugin chain explored widely.
ChainNext == NextOver(NarrowBundles, NarrowDocs, MaxOthers)
ChainSpec == Init /\ [][ChainNext]_vars

----------------------------------------------------------------------------
(* One run of the generated loader in a browser. *)

\* A browser: script.noModule is false where module scripts are supported and
\* undefined elsewhere; es is the newest syntax level its parser accepts.
Envs == [noModule : { "false", "undefined" }, es : 2017..2020]

\* The syntax level a piece of code needs to be parsed and run without an error.
needs(code) ==
    CASE code = syntaxTests.es2018 -> 2018
      [] code = syntaxTests.es2019 -> 2019
      [] code = syntaxTests.es2020 -> 2020
      [] OTHER -> 0      \* eval('undefined')

\* eval(code) throws in browser e.
evalThrows(code, e) == needs(code) > e.es

\* The URLs a loader is generated with.
UrlPairs ==
    { << AbsPrefix \o << MainJs >>, AbsPrefix \o << MainLegacyJs >> >>,
      << UrlPrefix \o << MainJs >>, UrlPrefix \o << MainLegacyJs >> >> }

LoaderInit ==
    /\ write = TRUE
    /\ esbuildTarget \in TargetInputs
    /\ inputPlugins = << >>
    /\ configured = FALSE
    /\ phase = "page"
    /\ chain = << >>
    /\ snapshot = << >>
    /\ hookIdx = 1
    /\ genIdx = 1
    /\ genLog = << >>
    /\ bundle = << >>
    /\ mainChunk = << >>
    /\ legacyAssets = << >>
    /\ error = "none"
    /\ overrides = FALSE
    /\ html = << >>
    /\ assets = << >>
    /\ plainHtml = << >>
    /\ plainAssets = << >>
    /\ htmlIn = << >>
    /\ assetsIn = << >>
    /\ awaited = << >>
    /\ \E u \in UrlPairs : loader = getLoader(u[1], u[2])
    /\ env \in Envs
    /\ pc = "createElement"
    /\ script = IdleScript
    /\ created = 0
    /\ srcSets = << >>
    /\ head = << >>
    /\ threw = "none"

\* var script = document.createElement('script')
CreateElement ==
    /\ pc = "createElement"
    /\ created' = created + 1
    /\ script' = [type |-> "", src |-> NoPath]
    /\ pc' = "moduleTest"
    /\ UNCHANGED << loader, env, srcSets, head, threw >>
    /\ UNCHANGED buildVars

\* script.noModule.$
ModuleTest ==
    /\ pc = "moduleTest"
    /\ IF env.noModule = "undefined"
       THEN threw' = "moduleTest" /\ pc' = "catch"
       ELSE pc' = "syntaxTest" /\ UNCHANGED threw
    /\ UNCHANGED << loader, env, script, created, srcSets, head >>
    /\ UNCHANGED buildVars

\* A bug: a throwing syntax test is swallowed and the run goes on after the try.
SyntaxTestSwallowed ==
    /\ pc = "syntaxTest"
    /\ IF evalThrows(loader.syntaxTest, env)
       THEN threw' = "syntaxTest" /\ pc' = "appendChild"
       ELSE pc' = "setType" /\ UNCHANGED threw
    /\ UNCHANGED << loader, env, script, created, srcSets, head >>
    /\ UNCHANGED buildVars

\* A bug: the syntax test is interpolated but never evaluated.
SyntaxTestSkipped ==
    /\ pc = "syntaxTest"
    /\ pc' = "setType"
    /\ UNCHANGED << loader, env, script, created, srcSets, head, threw >>
    /\ UNCHANGED buildVars

\* eval('${syntaxTest}')
SyntaxTest ==
    /\ pc = "syntaxTest"
    /\ IF evalThrows(loader.syntaxTest, env)
       THEN threw' = "syntaxTest" /\ pc' = "catch"
       ELSE pc' = "setType" /\ UNCHANGED threw
    /\ UNCHANGED << loader, env, script, created, srcSets, head >>
    /\ UNCHANGED buildVars

\* script.type = 'module'
SetType ==
    /\ pc = "setType"
    /\ script' = [script EXCEPT !.type = "module"]
    /\ pc' = "setSrc"
    /\ UNCHANGED << loader, env, created, srcSets, head, threw >>
    /\ UNCHANGED buildVars

\* script.src = '${modernBundleId}'
SetSrcModern ==
    /\ pc = "setSrc"
    /\ script' = [script EXCEPT !.src = loader.src]
    /\ srcSets' = Append(srcSets, loader.src)
    /\ pc' = "appendChild"
    /\ UNCHANGED << loader, env, created, head, threw >>
    /\ UNCHANGED buildVars

\* catch(e) { script.src = '${legacyBundleId}' }
CatchSetSrcLegacy ==
    /\ pc = "catch"
    /\ script' = [script EXCEPT !.src = loader.legacy]
    /\ srcSets' = Append(srcSets, loader.legacy)
    /\ pc' = "appendChild"
    /\ UNCHANGED << loader, env, created, head, threw >>
    /\ UNCHANGED buildVars

\* document.head.appendChild(script)
AppendChild ==
    /\ pc = "appendChild"
    /\ head' = Append(head, script)
    /\ pc' = "done"
    /\ UNCHANGED << loader, env, script, created, srcSets, threw >>
    /\ UNCHANGED buildVars

LoaderNext ==
    \/ CreateElement
    \/ ModuleTest
    \/ SyntaxTest
    \/ SetType
    \/ SetSrcModern
    \/ CatchSetSrcLegacy
    \/ AppendChild

LoaderSpec == LoaderInit /\ [][LoaderNext]_vars

----------------------------------------------------------------------------
(* The claims. *)

\* The base name of a src that does not end in "/": its last segment.
LastSegment(src) == src[Len(src)]

\* The first entry of the manifest flagged as an entry chunk, 0 when there is none.
FirstEntry ==
    LET E == { i \in 1..Len(bundle) : bundle[i].type = "chunk" /\ bundle[i].isEntry }
    IN  IF E = {} THEN 0 ELSE CHOOSE i \in E : \A j \in E : i <= j

\* C1: once the accessors are installed, after an asset list L is assigned to
\* `assets` the list read has |L| + 1 elements, the elements of L first, unchanged
\* and in order, and the legacy artifact as the one extra element.
C1_AssetsAppended ==
    (overrides /\ Len(assetsIn) = 1) =>
        /\ Len(ReadAssets) = 1
        /\ LET L == assetsIn[1]
               R == ReadAssets[1]
           IN  /\ Len(R) = Len(L) + 1
               /\ \A i \in 1..Len(L) : R[i] = L[i]
               /\ R[Len(L) + 1] = legacyAssets[1]
               /\ R[Len(L) + 1].origin = "nested"

C1_Witness ==
    /\ overrides
    /\ Len(assetsIn) = 1
    /\ Len(assetsIn[1]) = 2
    /\ Len(ReadAssets[1]) = 3

\* C2: in the HTML read after an assignment, a token differs from the one assigned
\* only where that one is a module-script tag whose src base name is the entry
\* chunk's file name, and there it is the loader script; every other module-script
\* tag and everything else is unchanged.
C2_HtmlPassThrough ==
    (overrides /\ Len(htmlIn) = 1) =>
        /\ Len(ReadHtml) = 1
        /\ Len(ReadHtml[1]) = Len(htmlIn[1])
        /\ \A i \in 1..Len(htmlIn[1]) :
             LET in == htmlIn[1][i]
                 out == ReadHtml[1][i]
             IN  out # in =>
                   /\ in.kind = "moduleTag"
                   /\ << LastSegment(in.src) >> = mainChunk[1].fileName
                   /\ out.kind = "loader"

C2_Witness ==
    /\ overrides
    /\ Len(htmlIn) = 1
    /\ Len(htmlIn[1]) = 2
    /\ htmlIn[1][1].kind = "moduleTag"
    /\ htmlIn[1][2].kind = "moduleTag"
    /\ ReadHtml[1][1].kind = "loader"
    /\ ReadHtml[1][2] = htmlIn[1][2]

\* C3: the legacy artifact's file name differs from the entry chunk's file name and
\* from the file name of every entry of the manifest.
C3_LegacyNameFresh ==
    Len(legacyAssets) = 1 =>
        /\ legacyAssets[1].fileName # mainChunk[1].fileName
        /\ \A i \in 1..Len(bundle) : bundle[i].fileName # legacyAssets[1].fileName

\* C4: one run of the loader creates one script element, assigns its src once, to
\* the modern or to the legacy URL, and appends it to the head once.
C4_ExactlyOneRequest ==
    /\ created <= 1
    /\ Len(srcSets) <= 1
    /\ Len(head) <= 1
    /\ pc = "done" =>
         /\ created = 1
         /\ Len(srcSets) = 1
         /\ srcSets[1] \in { loader.src, loader.legacy }
         /\ Len(head) = 1
         /\ head[1] = script
         /\ head[1].src = srcSets[1]

C4_Witness ==
    /\ pc = "done"
    /\ threw = "syntaxTest"
    /\ Len(head) = 1
    /\ head[1].src = loader.legacy

\* The syntax level a target names, where a test is registered for it.
Registered_Level(target) ==
    CASE target = "es2018" -> 2018
      [] target = "es2019" -> 2019
      [] target = "es2020" -> 2020
      [] OTHER -> 0

\* C5: the element appended is the modern bundle as a module script exactly when
\* neither the module check nor the registered syntax test threw; otherwise it is
\* the legacy bundle and not a module script. The module check throws exactly where
\* script.noModule is undefined; the syntax test throws exactly where a test is
\* registered for the target and the browser lacks that level, so without a
\* registered test the module check alone decides.
C5_ModernIffChecksPass ==
    pc = "done" =>
        LET level == Registered_Level(toLowerCase(esbuildTarget))
            moduleThrows == env.noModule = "undefined"
            syntaxThrows == level # 0 /\ env.es < level
            modern == head[1].src = loader.src /\ head[1].type = "module"
        IN  /\ modern <=> (~moduleThrows /\ ~syntaxThrows)
            /\ ~modern => (head[1].src = loader.legacy /\ head[1].type # "module")
            /\ (threw = "moduleTest") <=> moduleThrows
            /\ (threw = "syntaxTest") <=> (~moduleThrows /\ syntaxThrows)
            /\ level = 0 => (modern <=> ~moduleThrows)

C5_Witness ==
    /\ pc = "done"
    /\ esbuildTarget = "esnext"
    /\ env.noModule = "false"
    /\ env.es = 2017
    /\ head[1].src = loader.src
    /\ head[1].type = "module"

\* The transform gave no result, or the nested bundle failed.
SynthesisFailed ==
    /\ Len(awaited) = 1
    /\ Len(mainChunk) = 1
    /\ \/ awaited[1].transformed = "null"
       \/ awaited[1].transformed = "result" /\ awaited[1].rebundled = "rejected"

\* C6: when the transform gives no result or the nested bundle fails, the hook
\* fails and the build is aborted: there is no legacy artifact, the accessors are
\* not installed, and nothing is read from html or assets.
C6_FailureAborts ==
    SynthesisFailed =>
        /\ phase = "aborted"
        /\ error # "none"
        /\ Len(legacyAssets) = 0
        /\ ~overrides
        /\ buildPlugin.name \notin { genLog[i] : i \in 1..Len(genLog) }
        /\ ReadHtml = << >>
        /\ ReadAssets = << >>

C6_Witness ==
    /\ SynthesisFailed
    /\ awaited[1].transformed = "null"
    /\ phase = "aborted"
    /\ Len(bundle) = 2

\* C7: a replaced tag's loader names the tag's src X as the modern URL and, as the
\* legacy URL, X with its last segment replaced by the legacy file name.
C7_LegacyUrlBesideModern ==
    (overrides /\ Len(htmlIn) = 1) =>
        \A i \in 1..Len(htmlIn[1]) :
            LET in == htmlIn[1][i]
                out == ReadHtml[1][i]
            IN  (in.kind = "moduleTag" /\ << LastSegment(in.src) >> = mainChunk[1].fileName) =>
                  /\ out.kind = "loader"
                  /\ out.src = in.src
                  /\ out.legacy = Front(in.src) \o legacyAssets[1].fileName

\* C8: without an entry chunk in the manifest the hook fails (no legacy artifact, no
\* accessors); otherwise the first entry chunk in manifest order is mainChunk, the
\* legacy artifact is made from it, and its file name is the one the tags of the
\* HTML are matched against.
C8_EntrySelection ==
    Len(awaited) = 1 =>
        IF FirstEntry = 0
        THEN /\ phase = "aborted"
             /\ error # "none"
             /\ Len(legacyAssets) = 0
             /\ ~overrides
        ELSE /\ mainChunk = << bundle[FirstEntry] >>
             /\ Len(legacyAssets) = 1 =>
                  legacyAssets[1] = generate(legacyPath(bundle[FirstEntry]))
             /\ (overrides /\ Len(htmlIn) = 1) =>
                  \A i \in 1..Len(htmlIn[1]) :
                      (ReadHtml[1][i].kind = "loader") <=>
                          /\ htmlIn[1][i].kind = "moduleTag"
                          /\ << LastSegment(htmlIn[1][i].src) >> = bundle[FirstEntry].fileName

C8_Witness ==
    /\ Len(bundle) = 2
    /\ bundle[1].isEntry
    /\ bundle[2].isEntry
    /\ bundle[1].fileName = << AppMjs >>
    /\ overrides
    /\ Len(htmlIn) = 1
    /\ ReadHtml[1][2].kind = "loader"
    /\ ReadHtml[1][1].kind = "moduleTag"

\* The options hooks have all run.
OptionsDone == phase \in { "generate", "finalize", "aborted" }

\* Where a plugin is in a list, 0 where it is not.
IndexOf(list, p) ==
    IF \E i \in 1..Len(list) : list[i] = p
    THEN CHOOSE i \in 1..Len(list) : list[i] = p
    ELSE 0

\* An options hook that runs after setupPlugin's appends a plugin too.
LaterHookAppends ==
    \E i \in 1..Len(snapshot) :
        /\ i > IndexOf(snapshot, setupPlugin)
        /\ snapshot[i] # setupPlugin
        /\ snapshot[i].pushes

\* C9 as claimed: after the options hooks the legacy build plugin is the last
\* plugin of the chain, whatever the other plugins are.
C9_BuildPluginLast ==
    (write /\ OptionsDone) => chain[Len(chain)] = buildPlugin

\* C9 as amended: after the options hooks the legacy build plugin is in the chain
\* once, after every plugin the chain held when the hooks began to run (the outer
\* build's own and every registered one, before or after configureBuild); it is last
\* unless an options hook that ran after setupPlugin's appended a plugin as well;
\* its generateBundle hook runs after those of all plugins before it.
C9_BuildPluginAfterRegistered ==
    (write /\ OptionsDone) =>
        LET k == IndexOf(chain, buildPlugin) IN
        /\ k # 0
        /\ Count(chain, { buildPlugin }) = 1
        /\ \A i \in 1..Len(snapshot) : chain[i] = snapshot[i] /\ i < k
        /\ ~LaterHookAppends => k = Len(chain)
        /\ \A i \in 1..Len(genLog) :
             genLog[i] = buildPlugin.name =>
                 /\ i = k
                 /\ \A j \in 1..(k - 1) : genLog[j] = chain[j].name

C9_Witness ==
    /\ write
    /\ phase = "finalize"
    /\ Len(Registered) = 3
    /\ Registered[1] = StaticPlugin
    /\ Registered[2] = setupPlugin
    /\ Registered[3] = StaticPlugin
    /\ chain[Len(chain)] = buildPlugin
    /\ genLog[Len(genLog)] = buildPlugin.name

\* C10: in a build that does not write, configureBuild registers nothing (it does
\* not even create the plugin list), no error is raised, no legacy synthesis starts,
\* and html and assets read back exactly what was assigned to them.
C10_NoWriteNoOp ==
    ~write =>
        /\ \A i \in 1..Len(Registered) : Registered[i] \in Others
        /\ Len(inputPlugins) = 1 => Len(inputPlugins[1]) >= 1
        /\ \A i \in 1..Len(chain) : chain[i] \notin { setupPlugin, buildPlugin }
        /\ error = "none"
        /\ phase # "aborted"
        /\ Len(awaited) = 0
        /\ Len(mainChunk) = 0
        /\ Len(legacyAssets) = 0
        /\ ~overrides
        /\ ReadHtml = htmlIn
        /\ ReadAssets = assetsIn

C10_Witness ==
    /\ ~write
    /\ configured
    /\ Len(inputPlugins) = 0
    /\ phase = "finalize"
    /\ Len(htmlIn) = 1
    /\ Len(assetsIn) = 1
    /\ Len(assetsIn[1]) = 2

====
